---- MODULE Spec2Model ----
\* A model of ESMF/api/grid.py: the Grid wrapper object, its shadow lists
\* (staggerloc, bounds, size, coords, mask, area), shallow copies and slices,
\* and the life cycle of the native grid handle it owns.
EXTENDS Integers, Sequences, FiniteSets, TLC

\* ---------------------------------------------------------------- bounds
\* Largest number of cells per dimension in a max_index argument.
MaxExtent == 2
\* Python Grid objects (constructed, copied or sliced) in one run.
MaxGrids == 3
\* Calls of the constructor, add_coords, add_item, copy and __getitem__ in one run.
MaxOps == 3
\* Longest staggerloc list passed to add_coords / add_item / the constructor.
MaxStaggerList == 2
\* Calls of the constructor in one run.
MaxConstructs == 1
\* Native calls that raise in one run.
MaxFailures == 1
\* The failing native call is at most the MaxFailAt-th one of its handler.
MaxFailAt == 6
\* Largest number of parallel workers (PETs).
MaxPets == 2

\* ------------------------------------------------------- program constants
\* StaggerLoc.CENTER / StaggerLoc.CORNER / StaggerLoc.CORNER_VFACE
CENTER == 0
CORNER == 3
CORNER_VFACE == 7
\* What a freshly allocated native buffer holds: the native library does not
\* initialise what it allocates (grid.py:875), and a buffer read from a file
\* holds the file's data. The word differs from what the wrapper writes.
RawWords == {7}

\* GridItem kinds; OTHERITEM stands for any kind that is neither MASK nor AREA.
MASK == "MASK"
AREA == "AREA"
OTHERITEM == "OTHERITEM"
\* FileFormat kinds; OTHERFORMAT stands for any format but SCRIP and GRIDSPEC.
SCRIP == "SCRIP"
GRIDSPEC == "GRIDSPEC"
OTHERFORMAT == "OTHERFORMAT"

\* Python's None, for arguments, references, bound vectors and arrays.
NoneArg == "None"
NoVec == <<>>
NoArr == [buf |-> 0, lo |-> <<>>, hi |-> <<>>]
NoErr == ""

\* ------------------------------------------------------------ arithmetic
Pow2(n) == IF n = 0 THEN 1 ELSE IF n = 1 THEN 2 ELSE IF n = 2 THEN 4 ELSE 8
Min(a, b) == IF a < b THEN a ELSE b
Max(a, b) == IF a > b THEN a ELSE b
\* Bit d (1-based dimension) of a stagger location id.
StaggerBit(s, d) == (s \div Pow2(d - 1)) % 2
Staggers(rank) == 0 .. (Pow2(rank) - 1)

\* ------------------------------------------------- numpy arrays and views
\* A buffer is a block of memory (native or owned by Python); an array is a
\* view [buf, lo, hi): the sub-box lo[d] <= i < hi[d] of buffer buf.
Shape(a) == [d \in 1 .. Len(a.lo) |-> a.hi[d] - a.lo[d]]
Cells(shape) ==
    {i \in [1 .. Len(shape) -> 0 .. MaxExtent] :
        \A d \in 1 .. Len(shape) : i[d] < shape[d]}
NewBuffer(owner, shape, v) ==
    [owner |-> owner, shape |-> shape, data |-> [i \in Cells(shape) |-> v]]
FullView(b, shape) ==
    [buf |-> b, lo |-> [d \in 1 .. Len(shape) |-> 0], hi |-> shape]
\* The values seen through view a, indexed from 0 in each dimension.
ViewData(bufs, a) ==
    [i \in Cells(Shape(a)) |->
        bufs[a.buf].data[[d \in 1 .. Len(a.lo) |-> a.lo[d] + i[d]]]]
\* a[...] = v
FillView(bufs, a, v) ==
    [bufs EXCEPT ![a.buf].data =
        [i \in DOMAIN @ |->
            IF \A d \in 1 .. Len(a.lo) : a.lo[d] <= i[d] /\ i[d] < a.hi[d]
            THEN v ELSE @[i]]]
\* numpy's vec.all(): every element is nonzero.
NpAll(vec) == \A d \in 1 .. Len(vec) : vec[d] # 0
VecSub(u, l) == [d \in 1 .. Len(u) |-> u[d] - l[d]]

VARIABLES
    petCount,   \* pet_count(): the number of parallel workers of this run
    phase,      \* "running", "exiting" (atexit hooks run), "done"
    objs,       \* the Python Grid objects, by id
    flagsH,     \* heap of _staggerloc lists
    vecH,       \* heap of _lower_bounds / _upper_bounds / _size lists
    coordsH,    \* heap of _coords lists
    itemH,      \* heap of _mask / _area lists
    bufs,       \* heap of buffers (native memory and Python-owned arrays)
    native,     \* the native grids, by handle
    atexit,     \* objects whose __del__ is registered with atexit, in order
    nops,       \* bounded operations performed
    ncons,      \* constructor calls made
    nfail,      \* native failures injected
    last        \* what the last operation was and how it ended

vars == <<petCount, phase, objs, flagsH, vecH, coordsH, itemH, bufs, native,
          atexit, nops, ncons, nfail, last>>

\* ------------------------------------------------------ the machine state
\* Handlers are state transformers on a record M holding the heaps, the log
\* of native calls made by the running handler (calls), the exception that
\* is propagating (err), and the inputs that resolve nondeterminism: the
\* position of the native call that raises (failAt, 0 for none) and the word
\* found in freshly allocated native memory (raw).
Raised(M) == M.err # NoErr
Raise(M, e) == [M EXCEPT !.err = e]
\* The statements of a handler that follow a call are written as a local
\* operator on the state the call left: they run unless an exception is
\* propagating.

\* A native call through the ESMP_* binding: it is logged, and it raises when
\* it is the call chosen to fail.
NativeCall(M, fn, s) ==
    [M EXCEPT !.calls = Append(@, <<fn, s>>),
              !.err = IF Len(M.calls) + 1 = M.failAt THEN "NativeError" ELSE NoErr]

\* ------------------------------------------------------ the native library
\* Local exclusive bounds of stagger s, as the binding returns them: the lower
\* bound is 0 in every dimension, the upper bound is the cell count plus one
\* node where the stagger sits on the cell boundary.
NativeLB(ng, s) == [d \in 1 .. Len(ng.maxIndex) |-> 0]
NativeUB(ng, s) == [d \in 1 .. Len(ng.maxIndex) |-> ng.maxIndex[d] + StaggerBit(s, d)]
\* The shape of the native buffer of coordinate d: full rank, or one axis.
NativeCoordShape(ng, s, d) ==
    IF ng.ndims = 1 /\ Len(ng.maxIndex) > 1
    THEN <<VecSub(NativeUB(ng, s), NativeLB(ng, s))[d]>>
    ELSE VecSub(NativeUB(ng, s), NativeLB(ng, s))
NewNativeGrid(maxIndex, ndims, fromFile) ==
    [destroyed |-> 0, maxIndex |-> maxIndex, ndims |-> ndims, fromFile |-> fromFile,
     coordBuf |-> [s \in Staggers(Len(maxIndex)) |-> <<>>],
     maskBuf |-> [s \in Staggers(Len(maxIndex)) |-> 0],
     areaBuf |-> [s \in Staggers(Len(maxIndex)) |-> 0]]
\* Native allocation of the coordinate buffers of stagger s of grid h.
NativeAddCoord(M, h, s) ==
    LET ng == M.native[h]
        rank == Len(ng.maxIndex)
        n == Len(M.bufs)
        fresh == [d \in 1 .. rank |-> NewBuffer("native", NativeCoordShape(ng, s, d), M.raw)]
    IN  IF ng.coordBuf[s] # <<>>
        THEN [M EXCEPT !.bufs = [b \in 1 .. n |->
                  IF \E d \in 1 .. rank : ng.coordBuf[s][d] = b
                  THEN [@[b] EXCEPT !.data = [i \in DOMAIN @ |-> M.raw]] ELSE @[b]]]
        ELSE [M EXCEPT !.bufs = @ \o fresh,
                       !.native[h].coordBuf[s] = [d \in 1 .. rank |-> n + d]]
\* Native allocation of the mask or area buffer of stagger s of grid h.
NativeAddItem(M, h, item, s) ==
    LET ng == M.native[h]
        n == Len(M.bufs)
        shape == VecSub(NativeUB(ng, s), NativeLB(ng, s))
        old == IF item = MASK THEN ng.maskBuf[s] ELSE ng.areaBuf[s]
    IN  IF old # 0
        THEN [M EXCEPT !.bufs[old].data = [i \in DOMAIN @ |-> M.raw]]
        ELSE IF item = MASK
        THEN [M EXCEPT !.bufs = Append(@, NewBuffer("native", shape, M.raw)),
                       !.native[h].maskBuf[s] = n + 1]
        ELSE [M EXCEPT !.bufs = Append(@, NewBuffer("native", shape, M.raw)),
                       !.native[h].areaBuf[s] = n + 1]

\* ------------------------------------------------------ the ESMP bindings
ESMP_GridAddCoord(M, g, s) ==
    LET Called(M1) == IF Raised(M1) THEN M1 ELSE NativeAddCoord(M1, M1.objs[g].struct, s)
    IN  Called(NativeCall(M, "GridAddCoord", s))
ESMP_GridAddItem(M, g, item, s) ==
    LET Called(M1) ==
            IF Raised(M1) THEN M1 ELSE NativeAddItem(M1, M1.objs[g].struct, item, s)
    IN  Called(NativeCall(M, "GridAddItem", s))
ESMP_GridGetCoordBounds(M, g, s) == NativeCall(M, "GridGetCoordBounds", s)
\* The pointer is the id of the native buffer; the binding raises when the
\* native side has none.
ESMP_GridGetCoordPtr(M, g, d, s) ==
    LET Called(M1) ==
            IF Raised(M1) THEN M1
            ELSE IF M1.native[M1.objs[g].struct].coordBuf[s] = <<>>
            THEN Raise(M1, "NativeError")
            ELSE M1
    IN  Called(NativeCall(M, "GridGetCoordPtr", s))
CoordPtr(M, g, d, s) == M.native[M.objs[g].struct].coordBuf[s][d]
ItemPtr(M, g, item, s) ==
    IF item = MASK THEN M.native[M.objs[g].struct].maskBuf[s]
    ELSE M.native[M.objs[g].struct].areaBuf[s]
ESMP_GridGetItem(M, g, item, s) ==
    LET Called(M1) ==
            IF Raised(M1) THEN M1
            ELSE IF ItemPtr(M1, g, item, s) = 0 THEN Raise(M1, "NativeError")
            ELSE M1
    IN  Called(NativeCall(M, "GridGetItem", s))
ESMP_GridDestroy(M, g) ==
    LET M1 == [M EXCEPT !.calls = Append(@, <<"GridDestroy", 0>>)]
    IN  [M1 EXCEPT !.native[M1.objs[g].struct].destroyed = @ + 1]

\* ------------------------------------------------------ Grid: the helpers
\* np.zeros(shape): a new array owned by Python; the new array is the full
\* view of the last buffer of the result.
NpZeros(M, shape) == [M EXCEPT !.bufs = Append(@, NewBuffer("py", shape, 0))]
LastArr(M) == FullView(Len(M.bufs), M.bufs[Len(M.bufs)].shape)

\* ndarray_from_esmf(data, kind, shape): a view of native memory, not a copy.
ndarray_from_esmf(b, shape) == FullView(b, shape)

\* Grid._verify_grid_bounds_ with both assertions of the cached branch that
\* read the upper bound: None has no all().
VerifyCached(M, g, s) ==
    LET Fetched(M1) ==
            LET o == M1.objs[g]
                lb == NativeLB(M1.native[o.struct], s)
                ub == NativeUB(M1.native[o.struct], s)
            IN  IF Raised(M1) THEN M1
                ELSE IF NpAll(M1.vecH[o.lb][s]) # NpAll(lb) THEN Raise(M1, "AssertionError")
                ELSE IF M1.vecH[o.ub][s] = NoVec THEN Raise(M1, "AttributeError")
                ELSE IF NpAll(M1.vecH[o.ub][s]) # NpAll(ub) THEN Raise(M1, "AssertionError")
                ELSE IF M1.vecH[o.sz][s] = NoVec THEN Raise(M1, "AttributeError")
                ELSE IF NpAll(M1.vecH[o.sz][s]) # NpAll(VecSub(ub, lb))
                THEN Raise(M1, "AssertionError")
                ELSE M1
    IN  Fetched(ESMP_GridGetCoordBounds(M, g, s))
\* The bounds are not cached: they are fetched (any failure of the fetch is
\* raised as GridBoundsNotCreated) and stored, with the size upper - lower.
VerifyFresh(M, g, s) ==
    LET Fetched(M1) ==
            LET o == M1.objs[g]
                lb == NativeLB(M1.native[o.struct], s)
                ub == NativeUB(M1.native[o.struct], s)
                SetSize(M3) ==
                    [M3 EXCEPT !.vecH[o.sz][s] = VecSub(M3.vecH[o.ub][s], M3.vecH[o.lb][s])]
            IN  IF Raised(M1) THEN Raise(M1, "GridBoundsNotCreated")
                ELSE SetSize([M1 EXCEPT !.vecH[o.lb][s] = lb, !.vecH[o.ub][s] = ub])
    IN  Fetched(ESMP_GridGetCoordBounds(M, g, s))
verifyAlwaysFresh(M, g, s) == IF Raised(M) THEN M ELSE VerifyFresh(M, g, s)
verify_grid_bounds(M, g, s) ==
    IF Raised(M) THEN M
    ELSE IF M.vecH[M.objs[g].lb][s] = NoVec THEN VerifyFresh(M, g, s)
    ELSE VerifyCached(M, g, s)

\* Grid._link_coord_buffer_ for coordinate d (1-based) of stagger s.
link_coord_buffer(M, g, d, s) ==
    LET Link(M2) ==
            LET o == M2.objs[g]
                lb == NativeLB(M2.native[o.struct], s)
                ub == NativeUB(M2.native[o.struct], s)
                gridCoordP == ndarray_from_esmf(CoordPtr(M2, g, d, s), VecSub(ub, lb))
            IN  IF Raised(M2) THEN M2
                ELSE [M2 EXCEPT !.coordsH[o.co][s][d] = gridCoordP,
                                !.objs[g].hasCorners = @ \/ s \in {CORNER, CORNER_VFACE}]
        GetBounds(M1) == IF Raised(M1) THEN M1 ELSE Link(ESMP_GridGetCoordBounds(M1, g, s))
    IN  IF Raised(M) THEN M ELSE GetBounds(ESMP_GridGetCoordPtr(M, g, d, s))
RECURSIVE LinkCoordLoop(_, _, _, _)
LinkCoordLoop(M, g, d, s) ==
    IF d > M.objs[g].rank THEN M
    ELSE LinkCoordLoop(link_coord_buffer(M, g, d, s), g, d + 1, s)

\* np.meshgrid(gc0, gc1[, gc2], indexing="ij"): new arrays owned by Python,
\* output d holding axis d's value along dimension d.
RECURSIVE MeshGrid(_, _, _, _, _)
MeshGrid(M, g, s, shape, d) ==
    IF d > Len(shape) THEN M
    ELSE LET axis == M.bufs[CoordPtr(M, g, d, s)].data
             buf == [owner |-> "py", shape |-> shape,
                     data |-> [i \in Cells(shape) |-> axis[<<i[d]>>]]]
         IN  MeshGrid([M EXCEPT !.bufs = Append(@, buf)], g, s, shape, d + 1)
RECURSIVE GetCoordPtrs(_, _, _, _)
GetCoordPtrs(M, g, d, s) ==
    IF d > M.objs[g].rank \/ Raised(M) THEN M
    ELSE GetCoordPtrs(ESMP_GridGetCoordPtr(M, g, d, s), g, d + 1, s)
\* Grid._link_coord_buffer_1Dcoords
link_coord_buffer_1Dcoords(M, g, s) ==
    LET Link(M2) ==
            LET o == M2.objs[g]
                lb == NativeLB(M2.native[o.struct], s)
                ub == NativeUB(M2.native[o.struct], s)
                n == Len(M2.bufs)
            IN  IF Raised(M2) THEN M2
                ELSE [MeshGrid(M2, g, s, VecSub(ub, lb), 1) EXCEPT
                        !.coordsH[o.co][s] =
                            [d \in 1 .. o.rank |-> FullView(n + d, VecSub(ub, lb))],
                        !.objs[g].hasCorners = @ \/ s \in {CORNER, CORNER_VFACE}]
    IN  IF Raised(M) THEN M
        ELSE Link(GetCoordPtrs(ESMP_GridGetCoordBounds(M, g, s), g, 1, s))

\* coords[stagger][d] = np.zeros(size[stagger]) for every d below rank
RECURSIVE ZeroCoords(_, _, _, _)
ZeroCoords(M, g, d, s) ==
    IF d > M.objs[g].rank THEN M
    ELSE LET Store(M1) == [M1 EXCEPT !.coordsH[M.objs[g].co][s][d] = LastArr(M1)]
         IN  ZeroCoords(Store(NpZeros(M, M.vecH[M.objs[g].sz][s])), g, d + 1, s)
\* coords[stagger][d][...] = 0 for every d below rank
RECURSIVE InitCoords(_, _, _, _)
InitCoords(M, g, d, s) ==
    IF d > M.objs[g].rank THEN M
    ELSE InitCoords([M EXCEPT !.bufs = FillView(@, M.coordsH[M.objs[g].co][s][d], 0)],
                    g, d + 1, s)

\* Grid._allocate_coords_
allocate_coords(M, g, s, from_file) ==
    LET o == M.objs[g]
        Initialise(M3) == IF Raised(M3) \/ from_file THEN M3 ELSE InitCoords(M3, g, 1, s)
        Link(M2) ==
            IF Raised(M2) THEN M2
            ELSE IF o.ndims = o.rank \/ o.ndims = 0 THEN LinkCoordLoop(M2, g, 1, s)
            ELSE IF o.ndims < o.rank
            THEN IF o.ndims # 1 THEN Raise(M2, "ValueError")
                 ELSE link_coord_buffer_1Dcoords(M2, g, s)
            ELSE M2
        Allocate(M1) == IF Raised(M1) THEN M1 ELSE ZeroCoords(M1, g, 1, s)
    IN  Initialise(Link(Allocate(verify_grid_bounds(M, g, s))))

\* Grid._link_item_buffer_
link_item_buffer(M, g, item, s) ==
    LET Link(M2) ==
            LET o == M2.objs[g]
                lb == NativeLB(M2.native[o.struct], s)
                ub == NativeUB(M2.native[o.struct], s)
                arr == ndarray_from_esmf(ItemPtr(M2, g, item, s), VecSub(ub, lb))
            IN  IF Raised(M2) THEN M2
                ELSE IF item = MASK THEN [M2 EXCEPT !.itemH[o.mk][s] = arr]
                ELSE IF item = AREA THEN [M2 EXCEPT !.itemH[o.ar][s] = arr]
                ELSE Raise(M2, "GridItemNotSupported")
        GetBounds(M1) == IF Raised(M1) THEN M1 ELSE Link(ESMP_GridGetCoordBounds(M1, g, s))
    IN  IF Raised(M) THEN M ELSE GetBounds(ESMP_GridGetItem(M, g, item, s))

\* Lines 904-910: what a new item is initialised to, mask to 1 and area to 0.
InitItemsToZero(M, g, item, s) ==
    IF item = MASK THEN [M EXCEPT !.bufs = FillView(@, M.itemH[M.objs[g].mk][s], 0)]
    ELSE IF item = AREA THEN [M EXCEPT !.bufs = FillView(@, M.itemH[M.objs[g].ar][s], 0)]
    ELSE Raise(M, "GridItemNotSupported")
InitItems(M, g, item, s) ==
    IF item = MASK THEN [M EXCEPT !.bufs = FillView(@, M.itemH[M.objs[g].mk][s], 1)]
    ELSE IF item = AREA THEN [M EXCEPT !.bufs = FillView(@, M.itemH[M.objs[g].ar][s], 0)]
    ELSE Raise(M, "GridItemNotSupported")
\* Grid._allocate_items_
allocate_items(M, g, item, s, from_file) ==
    LET o == M.objs[g]
        Initialise(M3) == IF Raised(M3) \/ from_file THEN M3 ELSE InitItems(M3, g, item, s)
        Store(Z) ==
            IF item = MASK THEN [Z EXCEPT !.itemH[o.mk][s] = LastArr(Z)]
            ELSE [Z EXCEPT !.itemH[o.ar][s] = LastArr(Z)]
        Allocate(M1) ==
            IF Raised(M1) THEN M1
            ELSE IF item \in {MASK, AREA} THEN Store(NpZeros(M1, M1.vecH[o.sz][s]))
            ELSE Raise(M1, "GridItemNotSupported")
    IN  Initialise(link_item_buffer(Allocate(verify_grid_bounds(M, g, s)), g, item, s))

\* ------------------------------------------------- Grid: the public methods
\* The staggerloc argument of add_coords / add_item: None, one location, or a
\* collection of locations; normalised to a list as lines 625-631 do.
NormStagger(arg) ==
    IF arg.kind = "none" THEN <<CENTER>>
    ELSE IF arg.kind = "scalar" THEN <<arg.v[1]>>
    ELSE arg.v

\* Line 634: the coordinates of stagger s have been added already.
CoordsNeverPresent(M, g, s) == FALSE
CoordsPresent(M, g, s) == M.coordsH[M.objs[g].co][s][1] # NoArr
RECURSIVE AddCoordsLoop(_, _, _, _, _)
AddCoordsLoop(M, g, stag, k, from_file) ==
    IF k > Len(stag) \/ Raised(M) THEN M
    ELSE LET s == stag[k]
             o == M.objs[g]
             SetFlag(M2) == IF Raised(M2) THEN M2 ELSE [M2 EXCEPT !.flagsH[o.sl][s] = TRUE]
             Allocate(M1) == IF Raised(M1) THEN M1 ELSE allocate_coords(M1, g, s, from_file)
             step == IF CoordsPresent(M, g, s) THEN [M EXCEPT !.warned = TRUE]
                     ELSE SetFlag(Allocate(IF from_file THEN M
                                           ELSE ESMP_GridAddCoord(M, g, s)))
         IN  AddCoordsLoop(step, g, stag, k + 1, from_file)
\* Grid.add_coords (coord_dim left at its default, None: nothing is returned)
add_coords(M, g, staggerloc, from_file) ==
    IF Raised(M) THEN M ELSE AddCoordsLoop(M, g, NormStagger(staggerloc), 1, from_file)

\* Lines 685 and 689: the item of stagger s has been linked already.
ItemNeverPresent(M, g, item, s) == FALSE
ItemPresent(M, g, item, s) ==
    IF item = MASK THEN M.itemH[M.objs[g].mk][s] # NoArr
    ELSE M.itemH[M.objs[g].ar][s] # NoArr
RECURSIVE AddItemLoop(_, _, _, _, _, _)
AddItemLoop(M, g, item, stag, k, from_file) ==
    IF k > Len(stag) \/ Raised(M) THEN M
    ELSE LET s == stag[k]
             Allocate(M1) ==
                 IF Raised(M1) THEN M1 ELSE allocate_items(M1, g, item, s, from_file)
             step == IF item \notin {MASK, AREA} THEN Raise(M, "GridItemNotSupported")
                     ELSE IF ItemPresent(M, g, item, s)
                     THEN Raise(M, "GridItemAlreadyLinked")
                     ELSE Allocate(IF from_file THEN M
                                   ELSE ESMP_GridAddItem(M, g, item, s))
         IN  AddItemLoop(step, g, item, stag, k + 1, from_file)
\* Grid.add_item; the value returned is the item's array when one location
\* was given.
add_item(M, g, item, staggerloc, from_file) ==
    LET stag == NormStagger(staggerloc)
        Return(M1) ==
            IF Raised(M1) THEN M1
            ELSE IF Len(stag) = 1 /\ item \notin {MASK, AREA}
            THEN Raise(M1, "GridItemNotSupported")
            ELSE M1
    IN  IF Raised(M) THEN M ELSE Return(AddItemLoop(M, g, item, stag, 1, from_file))

\* Grid.destroy
destroyUnguarded(M, g) ==
    IF M.objs[g].fin = "absent" THEN M
    ELSE [ESMP_GridDestroy(M, g) EXCEPT !.objs[g].fin = "T"]
destroy(M, g) ==
    IF M.objs[g].fin = "absent" THEN M
    ELSE IF M.objs[g].fin = "F"
    THEN [ESMP_GridDestroy(M, g) EXCEPT !.objs[g].fin = "T"]
    ELSE M

\* Grid.copy: the new object is the last one of the result.
GridCopyKeepsFlag(M, g) == [M EXCEPT !.objs = Append(@, M.objs[g])]
GridCopy(M, g) == [M EXCEPT !.objs = Append(@, [M.objs[g] EXCEPT !.fin = "T"])]

\* ------------------------------------------------------------- slicing
\* ESMF.util.slicing. A slice argument has one component per dimension, an
\* integer index i or a slice start:stop; get_formatted_slice turns an
\* integer i into the slice i:i+1.
get_formatted_slice(slc, rank) ==
    [d \in 1 .. Len(slc) |->
        IF slc[d].kind = "int" THEN [start |-> slc[d].a, stop |-> slc[d].a + 1]
        ELSE [start |-> slc[d].a, stop |-> slc[d].b]]
\* target[slc] on an array: start and stop are clipped to the extent.
SliceArr(a, fs) ==
    [buf |-> a.buf,
     lo |-> [d \in 1 .. Len(a.lo) |-> a.lo[d] + Min(fs[d].start, a.hi[d] - a.lo[d])],
     hi |-> [d \in 1 .. Len(a.lo) |->
                a.lo[d] + Max(Min(fs[d].start, a.hi[d] - a.lo[d]),
                              Min(fs[d].stop, a.hi[d] - a.lo[d]))]]
get_none_or_slice(target, fs) == IF target = NoArr THEN NoArr ELSE SliceArr(target, fs)
get_none_or_ssslice(target, fs, stagger, rank) == get_none_or_slice(target, fs)
get_none_or_bound(target) == IF target = NoArr THEN NoVec ELSE Shape(target)

\* Lines 356-357: the upper bounds of the slice are the shapes of its
\* coordinate arrays.
ParentUpperBounds(M, g, coords) == M.vecH[M.objs[g].ub]
SlicedUpperBounds(M, g, coords) ==
    [s \in Staggers(M.objs[g].rank) |-> get_none_or_bound(coords[s][1])]
\* Grid.__getitem__ when pet_count() is 1: the new object is the last one.
GetItemSerial(M, g, slc) ==
    LET o == M.objs[g]
        r == Len(M.objs) + 1
        Sliced(fs) ==
            LET mask == [s \in Staggers(o.rank) |-> get_none_or_slice(M.itemH[o.mk][s], fs)]
                area == [s \in Staggers(o.rank) |-> get_none_or_slice(M.itemH[o.ar][s], fs)]
                Bounded(coords) ==
                    [GridCopy(M, g) EXCEPT
                        !.coordsH = Append(@, coords),
                        !.itemH = @ \o <<mask, area>>,
                        !.vecH = Append(@, SlicedUpperBounds(M, g, coords)),
                        !.objs[r].co = Len(M.coordsH) + 1,
                        !.objs[r].mk = Len(M.itemH) + 1,
                        !.objs[r].ar = Len(M.itemH) + 2,
                        !.objs[r].ub = Len(M.vecH) + 1]
            IN  Bounded([s \in Staggers(o.rank) |-> [d \in 1 .. o.rank |->
                            get_none_or_ssslice(M.coordsH[o.co][s][d], fs, s, o.rank)]])
    IN  Sliced(get_formatted_slice(slc, o.rank))
\* Grid.__getitem__
GridGetItemAnyPets(M, g, slc, pets) == GetItemSerial(M, g, slc)
GridGetItem(M, g, slc, pets) ==
    IF pets > 1 THEN Raise(M, "SerialMethod") ELSE GetItemSerial(M, g, slc)

\* ------------------------------------------------------- the constructor
\* A Grid object before __init__ has set any attribute.
BlankGrid ==
    [complete |-> FALSE, collected |-> FALSE, fin |-> "absent", struct |-> 0,
     rank |-> 0, ndims |-> 0, numPeri |-> 0, hasCorners |-> FALSE, maxIndex |-> NoVec,
     sl |-> 0, lb |-> 0, ub |-> 0, sz |-> 0, co |-> 0, mk |-> 0, ar |-> 0]

\* Lines 131-167: the argument check. The result is "memory", "file" or the
\* error raised.
ArgCheckScripOnly(a) ==
    IF ~a.max_index.none THEN "memory"
    ELSE IF a.filename = NoneArg \/ a.filetype = NoneArg THEN "GridArgumentError"
    ELSE IF a.filetype # SCRIP THEN "GridArgumentError"
    ELSE "file"
ArgCheck(a) ==
    IF ~a.max_index.none THEN "memory"
    ELSE IF a.filename = NoneArg \/ a.filetype = NoneArg THEN "GridArgumentError"
    ELSE IF a.filetype # SCRIP /\ a.filetype # GRIDSPEC THEN "GridArgumentError"
    ELSE "file"

\* Lines 232-246: native creation from a file. The native library reads the
\* coordinates of the centre stagger (and of the corner stagger, the area and
\* the mask when asked for) from the file; the inquiry returns the file's
\* rank, coordinate dimensionality and max_index.
RECURSIVE NativeFileStaggers(_, _, _, _)
NativeFileStaggers(M, h, stag, k) ==
    IF k > Len(stag) THEN M
    ELSE NativeFileStaggers(NativeAddCoord(M, h, stag[k]), h, stag, k + 1)
CreateFromFile(M, g, a) ==
    LET h == Len(M.native) + 1
        nd == IF a.filetype = SCRIP THEN Len(a.file.maxIndex) ELSE a.file.ndims
        SetAttributes(M6) ==
            IF Raised(M6) THEN M6
            ELSE [M6 EXCEPT !.objs[g].rank = Len(a.file.maxIndex),
                            !.objs[g].ndims = nd,
                            !.objs[g].maxIndex = a.file.maxIndex,
                            !.objs[g].numPeri = IF a.is_sphere = "False" THEN 0 ELSE 1]
        Inquire(M5) ==
            NativeCall(M5, IF a.filetype = SCRIP THEN "ScripInq" ELSE "GridspecInq", 0)
        ReadMask(M4) == IF a.add_mask THEN NativeAddItem(M4, h, MASK, CENTER) ELSE M4
        ReadArea(M3) == IF a.add_user_area THEN NativeAddItem(M3, h, AREA, CENTER) ELSE M3
        ReadCoords(M2) ==
            NativeFileStaggers(M2, h,
                IF a.add_corner_stagger THEN <<CENTER, CORNER>> ELSE <<CENTER>>, 1)
        Created(M1) ==
            IF Raised(M1) THEN M1
            ELSE SetAttributes(Inquire(ReadMask(ReadArea(ReadCoords(
                     [M1 EXCEPT !.native = Append(@, NewNativeGrid(a.file.maxIndex, nd, TRUE)),
                                !.objs[g].struct = h])))))
    IN  Created(NativeCall(M, "GridCreateFromFile", 0))

\* Lines 270-284: the native create chosen by num_peri_dims, or the error.
PeriDispatchNoCheck(np) ==
    IF np = 1 THEN "GridCreate1PeriDim" ELSE "GridCreateNoPeriDim"
PeriDispatch(np) ==
    IF np = 0 THEN "GridCreateNoPeriDim"
    ELSE IF np = 1 THEN "GridCreate1PeriDim"
    ELSE "TypeError"
\* Lines 269-288: native creation in memory.
CreateInMemory(M, g, a) ==
    LET np == IF a.num_peri_dims.none THEN 0 ELSE a.num_peri_dims.v
        fn == PeriDispatch(np)
        h == Len(M.native) + 1
        Created(M1) ==
            IF Raised(M1) THEN M1
            ELSE [M1 EXCEPT !.native = Append(@, NewNativeGrid(a.max_index.v,
                                                             Len(a.max_index.v), FALSE)),
                            !.objs[g].struct = h,
                            !.objs[g].rank = Len(a.max_index.v),
                            !.objs[g].ndims = Len(a.max_index.v)]
        Create(M0) ==
            IF fn = "TypeError" THEN Raise(M0, fn)
            ELSE Created(NativeCall(M0, fn, 0))
    IN  Create([M EXCEPT !.objs[g].numPeri = np, !.objs[g].maxIndex = a.max_index.v])

\* Line 297: the stagger flags, 2**rank of them, all False.
NewFlagsTwiceRank(rank) == [s \in 0 .. (2 * rank - 1) |-> FALSE]
NewFlags(rank) == [s \in Staggers(rank) |-> FALSE]
\* Lines 296-314: the shadow lists, 2**rank entries each.
NewLists(M, g) ==
    LET rank == M.objs[g].rank
        nf == Len(M.flagsH)
        nv == Len(M.vecH)
        nc == Len(M.coordsH)
        ni == Len(M.itemH)
        noVecs == [s \in Staggers(rank) |-> NoVec]
        noArrs == [s \in Staggers(rank) |-> NoArr]
    IN  [M EXCEPT !.flagsH = Append(@, NewFlags(rank)),
                  !.vecH = @ \o <<noVecs, noVecs, noVecs>>,
                  !.coordsH = Append(@, [s \in Staggers(rank) |-> [d \in 1 .. rank |-> NoArr]]),
                  !.itemH = @ \o <<noArrs, noArrs>>,
                  !.objs[g].sl = nf + 1,
                  !.objs[g].lb = nv + 1, !.objs[g].ub = nv + 2, !.objs[g].sz = nv + 3,
                  !.objs[g].co = nc + 1,
                  !.objs[g].mk = ni + 1, !.objs[g].ar = ni + 2]

\* Lines 332-334: register __del__ with atexit, then set _finalized.
FinishUnregistered(M, g) == [M EXCEPT !.objs[g].fin = "F", !.objs[g].complete = TRUE]
FinishInit(M, g) ==
    [M EXCEPT !.atexit = Append(@, g), !.objs[g].fin = "F", !.objs[g].complete = TRUE]
\* Grid.__init__ on the blank object g (the last object of M).
GridInit(M, g, a) ==
    LET mode == ArgCheck(a)
        from_file == mode = "file"
        staggerloc == IF from_file
                      THEN [kind |-> "list",
                            v |-> IF a.add_corner_stagger THEN <<CENTER, CORNER>>
                                  ELSE <<CENTER>>]
                      ELSE a.staggerloc
        Finish(M5) == IF Raised(M5) THEN M5 ELSE FinishInit(M5, g)
        AddMask(M4) ==
            IF a.add_mask
            THEN add_item(M4, g, MASK, [kind |-> "scalar", v |-> <<CENTER>>], from_file)
            ELSE M4
        AddArea(M3) ==
            IF a.add_user_area
            THEN add_item(M3, g, AREA, [kind |-> "scalar", v |-> <<CENTER>>], from_file)
            ELSE M3
        AddCoordinates(M2) ==
            IF staggerloc.kind = "none" THEN M2
            ELSE add_coords(M2, g, staggerloc, from_file)
        Lists(M1) == IF Raised(M1) THEN M1 ELSE NewLists(M1, g)
    IN  IF mode = "GridArgumentError" THEN Raise(M, mode)
        ELSE Finish(AddMask(AddArea(AddCoordinates(Lists(
                 IF from_file THEN CreateFromFile(M, g, a) ELSE CreateInMemory(M, g, a))))))

\* ------------------------------------------------------------ the inputs
MaxIndexArgs ==
    {<<MaxExtent, MaxExtent>>, <<1, MaxExtent>>, <<MaxExtent, 1, MaxExtent>>}
StaggerLocs == {CENTER, CORNER}
StaggerLists ==
    UNION {[1 .. n -> StaggerLocs] : n \in 0 .. MaxStaggerList}
StaggerArgs ==
    {[kind |-> "none", v |-> <<>>]}
        \cup {[kind |-> "scalar", v |-> <<s>>] : s \in StaggerLocs}
        \cup {[kind |-> "list", v |-> l] : l \in StaggerLists}
PeriArgs ==
    {[none |-> TRUE, v |-> 0]} \cup {[none |-> FALSE, v |-> n] : n \in 0 .. 2}
ItemArgs == {MASK, AREA, OTHERITEM}
SlcComps ==
    {[kind |-> "int", a |-> 0, b |-> 0]}
        \cup {[kind |-> "slice", a |-> x, b |-> y] :
                 x \in 0 .. (MaxExtent - 1), y \in 1 .. MaxExtent}
SliceArgs(rank) == {slc \in [1 .. rank -> SlcComps] : \A d \in 1 .. rank : slc[d].a <= slc[d].b}
FailPoints == 0 .. MaxFailAt
\* The arguments of a construction in memory: the from-file arguments keep
\* their defaults.
MemoryArgs ==
    {[max_index |-> [none |-> FALSE, v |-> m], num_peri_dims |-> p, staggerloc |-> st,
      filename |-> NoneArg, filetype |-> NoneArg, is_sphere |-> "None",
      add_corner_stagger |-> FALSE, add_user_area |-> FALSE, add_mask |-> FALSE,
      file |-> [maxIndex |-> NoVec, ndims |-> 0]] :
        m \in MaxIndexArgs, p \in PeriArgs, st \in StaggerArgs}
\* The arguments of a construction without max_index: the in-memory arguments
\* keep their defaults; file is what the named file holds.
FileArgs ==
    {[max_index |-> [none |-> TRUE, v |-> NoVec],
      num_peri_dims |-> [none |-> FALSE, v |-> 0],
      staggerloc |-> [kind |-> "none", v |-> <<>>],
      filename |-> fn, filetype |-> ft, is_sphere |-> sp,
      add_corner_stagger |-> cs, add_user_area |-> ua, add_mask |-> am,
      file |-> [maxIndex |-> m, ndims |-> nd]] :
        fn \in {NoneArg, "grid.nc"}, ft \in {NoneArg, SCRIP, GRIDSPEC, OTHERFORMAT},
        sp \in {"None", "False"}, cs \in BOOLEAN, ua \in BOOLEAN, am \in BOOLEAN,
        m \in MaxIndexArgs, nd \in 1 .. 2}

\* The arguments recorded for an operation that is no construction.
NoArgs ==
    [max_index |-> [none |-> TRUE, v |-> NoVec],
     num_peri_dims |-> [none |-> TRUE, v |-> 0],
     staggerloc |-> [kind |-> "none", v |-> <<>>],
     filename |-> NoneArg, filetype |-> NoneArg, is_sphere |-> "None",
     add_corner_stagger |-> FALSE, add_user_area |-> FALSE, add_mask |-> FALSE,
     file |-> [maxIndex |-> NoVec, ndims |-> 0]]

\* ----------------------------------------------------------- the actions
Machine(failAt, raw) ==
    [objs |-> objs, flagsH |-> flagsH, vecH |-> vecH, coordsH |-> coordsH,
     itemH |-> itemH, bufs |-> bufs, native |-> native, atexit |-> atexit,
     calls |-> <<>>, err |-> NoErr, warned |-> FALSE, failAt |-> failAt, raw |-> raw]
\* The inputs are admissible: a failing call is chosen only while the budget
\* of failures lasts, and it is a call the handler makes.
Admissible(M) ==
    M.failAt = 0 \/ (nfail < MaxFailures /\ Len(M.calls) >= M.failAt)
Commit(M, op, g, ret, stag, item, arg, slc) ==
    /\ Admissible(M)
    /\ objs' = M.objs
    /\ flagsH' = M.flagsH
    /\ vecH' = M.vecH
    /\ coordsH' = M.coordsH
    /\ itemH' = M.itemH
    /\ bufs' = M.bufs
    /\ native' = M.native
    /\ atexit' = M.atexit
    /\ nfail' = IF M.failAt = 0 THEN nfail ELSE nfail + 1
    /\ last' = [tick |-> ~last.tick, op |-> op, obj |-> g,
                ret |-> IF Raised(M) THEN 0 ELSE ret, err |-> M.err,
                calls |-> M.calls, warned |-> M.warned, stag |-> stag, item |-> item,
                arg |-> arg, slc |-> slc]
Usable(g) == g \in 1 .. Len(objs) /\ objs[g].complete /\ ~objs[g].collected

Init ==
    /\ petCount \in 1 .. MaxPets
    /\ phase = "running"
    /\ objs = <<>>
    /\ flagsH = <<>>
    /\ vecH = <<>>
    /\ coordsH = <<>>
    /\ itemH = <<>>
    /\ bufs = <<>>
    /\ native = <<>>
    /\ atexit = <<>>
    /\ nops = 0
    /\ ncons = 0
    /\ nfail = 0
    /\ last = [tick |-> FALSE, op |-> "start", obj |-> 0, ret |-> 0, err |-> NoErr,
               calls |-> <<>>, warned |-> FALSE, stag |-> <<>>, item |-> NoneArg,
               arg |-> NoArgs, slc |-> <<>>]

\* Grid(...): a new object is made and __init__ runs on it.
Construct(a, failAt, raw) ==
    LET g == Len(objs) + 1
        M0 == [Machine(failAt, raw) EXCEPT !.objs = Append(@, BlankGrid)]
    IN  /\ phase = "running"
        /\ nops < MaxOps
        /\ Len(objs) < MaxGrids
        /\ ncons < MaxConstructs
        /\ Commit(GridInit(M0, g, a), "init", g, g, <<>>, NoneArg, a, <<>>)
        /\ nops' = nops + 1
        /\ ncons' = ncons + 1
        /\ UNCHANGED <<petCount, phase>>
\* The constructions of the full specification: a two-dimensional grid in
\* memory with the default topology, with or without a stagger location, or
\* a GRIDSPEC file with one-dimensional coordinate axes.
SpecMemoryArgs ==
    {a \in MemoryArgs :
        /\ a.max_index.v = <<1, MaxExtent>>
        /\ a.num_peri_dims.none
        /\ a.staggerloc \in {[kind |-> "none", v |-> <<>>],
                             [kind |-> "scalar", v |-> <<CENTER>>]}}
SpecFileArgs ==
    {a \in FileArgs :
        /\ a.filename # NoneArg /\ a.filetype = GRIDSPEC /\ a.is_sphere = "None"
        /\ ~a.add_corner_stagger /\ ~a.add_user_area /\ ~a.add_mask
        /\ a.file = [maxIndex |-> <<1, MaxExtent>>, ndims |-> 1]}
ConstructInMemory ==
    \E a \in SpecMemoryArgs, f \in FailPoints, w \in RawWords : Construct(a, f, w)
ConstructFromFile ==
    \E a \in SpecFileArgs, f \in FailPoints, w \in RawWords : Construct(a, f, w)
\* The constructions of the specification of the constructor: every argument
\* combination.
InitInMemory ==
    \E a \in MemoryArgs, f \in FailPoints, w \in RawWords : Construct(a, f, w)
InitFromFile ==
    \E a \in FileArgs, f \in FailPoints, w \in RawWords : Construct(a, f, w)

AddCoords ==
    \E g \in 1 .. Len(objs), st \in StaggerArgs, f \in FailPoints, w \in RawWords :
        /\ phase = "running"
        /\ nops < MaxOps
        /\ Usable(g)
        /\ Commit(add_coords(Machine(f, w), g, st, FALSE), "add_coords", g, 0,
                  NormStagger(st), NoneArg, NoArgs, <<>>)
        /\ nops' = nops + 1
        /\ UNCHANGED <<petCount, phase, ncons>>

AddItem ==
    \E g \in 1 .. Len(objs), item \in ItemArgs, st \in StaggerArgs,
       f \in FailPoints, w \in RawWords :
        /\ phase = "running"
        /\ nops < MaxOps
        /\ Usable(g)
        /\ Commit(add_item(Machine(f, w), g, item, st, FALSE), "add_item", g, 0,
                  NormStagger(st), item, NoArgs, <<>>)
        /\ nops' = nops + 1
        /\ UNCHANGED <<petCount, phase, ncons>>

Copy ==
    \E g \in 1 .. Len(objs) :
        /\ phase = "running"
        /\ nops < MaxOps
        /\ Len(objs) < MaxGrids
        /\ Usable(g)
        /\ Commit(GridCopy(Machine(0, 0), g), "copy", g, Len(objs) + 1, <<>>, NoneArg, NoArgs, <<>>)
        /\ nops' = nops + 1
        /\ UNCHANGED <<petCount, phase, ncons>>

GetItem ==
    \E g \in 1 .. Len(objs) : \E slc \in SliceArgs(objs[g].rank) :
        /\ phase = "running"
        /\ nops < MaxOps
        /\ Len(objs) < MaxGrids
        /\ Usable(g)
        /\ Commit(GridGetItem(Machine(0, 0), g, slc, petCount), "getitem", g,
                  Len(objs) + 1, <<>>, NoneArg, NoArgs,
                  get_formatted_slice(slc, objs[g].rank))
        /\ nops' = nops + 1
        /\ UNCHANGED <<petCount, phase, ncons>>

\* An explicit grid.destroy(); a partially constructed object can be reached
\* too (through the frame that raised).
Destroy ==
    \E g \in 1 .. Len(objs) :
        /\ phase = "running"
        /\ ~objs[g].collected
        /\ Commit(destroy(Machine(0, 0), g), "destroy", g, 0, <<>>, NoneArg, NoArgs, <<>>)
        /\ UNCHANGED <<petCount, phase, nops, ncons>>

\* Garbage collection runs __del__ on an object nothing refers to any more.
\* atexit holds a reference to every object it registered until the hooks
\* have run.
Registered(g) == \E k \in 1 .. Len(atexit) : atexit[k] = g
GarbageCollect ==
    \E g \in 1 .. Len(objs) :
        LET M == destroy(Machine(0, 0), g)
        IN  /\ ~objs[g].collected
            /\ (phase = "running" /\ ~Registered(g)) \/ phase = "done"
            /\ Commit([M EXCEPT !.objs[g].collected = TRUE], "del", g, 0, <<>>, NoneArg, NoArgs, <<>>)
            /\ UNCHANGED <<petCount, phase, nops, ncons>>

\* The process starts to exit: the atexit hooks will run.
Exit ==
    /\ phase = "running"
    /\ phase' = IF atexit = <<>> THEN "done" ELSE "exiting"
    /\ last' = [last EXCEPT !.tick = ~@, !.op = "exit", !.err = NoErr, !.calls = <<>>]
    /\ UNCHANGED <<petCount, objs, flagsH, vecH, coordsH, itemH, bufs, native, atexit,
                   nops, ncons, nfail>>

\* The atexit hooks run, last registered first; each is a bound __del__.
AtExitHook ==
    LET g == atexit[Len(atexit)]
        M == destroy(Machine(0, 0), g)
    IN  /\ phase = "exiting"
        /\ atexit # <<>>
        /\ Commit([M EXCEPT !.atexit = SubSeq(@, 1, Len(@) - 1)], "atexit", g, 0, <<>>,
                  NoneArg, NoArgs, <<>>)
        /\ phase' = IF Len(atexit) = 1 THEN "done" ELSE "exiting"
        /\ UNCHANGED <<petCount, nops, ncons>>

Next ==
    \/ ConstructInMemory
    \/ ConstructFromFile
    \/ AddCoords
    \/ AddItem
    \/ Copy
    \/ GetItem
    \/ Destroy
    \/ GarbageCollect
    \/ Exit
    \/ AtExitHook

Spec == Init /\ [][Next]_vars

\* One construction, with any arguments, and the life cycle of its object.
NextInit ==
    \/ InitInMemory
    \/ InitFromFile
    \/ Destroy
    \/ GarbageCollect
    \/ Exit
    \/ AtExitHook
SpecInit == Init /\ [][NextInit]_vars
\* At exit the interpreter runs every registered hook.
FairSpec == Spec /\ WF_vars(AtExitHook)

\* ================================================================ claims
Objects == 1 .. Len(objs)
\* The step taken is a call of op on object g.
StepOf(op, g) == last'.tick # last.tick /\ last'.op = op /\ last'.obj = g

\* C1: whatever destroy calls are made (explicit, __del__, the atexit hook) on
\* a Grid and on its shallow copies and slices, native destroy is invoked at
\* most once for the handle they share, and an object that is finalized stays
\* finalized.
C1_DestroyAtMostOnce ==
    [][/\ \A h \in 1 .. Len(native') : native'[h].destroyed <= 1
       /\ \A g \in Objects : objs[g].fin = "T" => objs'[g].fin = "T"]_vars
\* A copy and its original have both been destroyed, the original twice
\* (explicitly, then by the atexit hook).
C1_Witness ==
    /\ last.op = "atexit" /\ last.calls = <<>>
    /\ objs[last.obj].fin = "T"
    /\ native[objs[last.obj].struct].destroyed = 1
    /\ \E c \in Objects :
          /\ c # last.obj
          /\ objs[c].struct = objs[last.obj].struct
          /\ objs[c].collected

\* C2: a Grid whose construction succeeded is finalized by the end of process
\* teardown even if destroy() is never called: once the process exits the
\* hooks run to the end, and then native destroy has been invoked exactly
\* once for its handle and finalized is true.
AllFinalizedOnce ==
    \A g \in Objects :
        objs[g].complete =>
            objs[g].fin = "T" /\ native[objs[g].struct].destroyed = 1
C2_FinalizedAtExit ==
    /\ [](phase = "done" => AllFinalizedOnce)
    /\ (phase = "exiting") ~> (phase = "done")
\* Teardown has ended and it was the atexit hook that invoked native destroy.
C2_Witness ==
    /\ phase = "done"
    /\ last.op = "atexit" /\ last.calls = <<<<"GridDestroy", 0>>>>
    /\ objs[last.obj].complete /\ objs[last.obj].fin = "T"

\* C3: when construction fails after the native grid was created, an explicit
\* destroy() of the object, or the cleanup at process exit, invokes native
\* destroy, so that the native grid is not leaked.
C3_FailedInitIsReleased ==
    \A g \in Objects :
        (/\ ~objs[g].complete
         /\ objs[g].struct # 0
         /\ \/ last.op \in {"destroy", "del"} /\ last.obj = g
            \/ phase = "done")
            => native[objs[g].struct].destroyed >= 1

\* C4: a successful construction in memory yields rank = len(max_index) and
\* staggerloc, lower_bounds, upper_bounds, size, coords, mask and area of
\* 2**rank entries each, the stagger flags being true exactly at the
\* location(s) requested at construction.
Requested(a) ==
    IF a.staggerloc.kind = "none" THEN {}
    ELSE {a.staggerloc.v[k] : k \in DOMAIN a.staggerloc.v}
BadFileArgs(a) ==
    \/ a.filename = NoneArg
    \/ a.filetype = NoneArg
    \/ a.filetype \notin {SCRIP, GRIDSPEC}
C5_ArgumentCheck ==
    (last.op = "init" /\ last.arg.max_index.none) =>
        IF BadFileArgs(last.arg)
        THEN last.err = "GridArgumentError" /\ last.calls = <<>>
        ELSE /\ last.err # "GridArgumentError"
             /\ last.calls # <<>>
             /\ last.calls[1][1] = "GridCreateFromFile"
\* A construction with a file name and an unsupported file type was rejected.
C5_Witness ==
    /\ last.op = "init" /\ last.arg.max_index.none
    /\ last.arg.filename # NoneArg /\ last.arg.filetype = OTHERFORMAT
    /\ last.err = "GridArgumentError"

\* C6: add_coords at a stagger location whose coordinates are linked already
\* is a no-op apart from the warning: no native call is made for the
\* location, and its coords, staggerloc flag, bounds and size stay as they
\* were; when every location asked for is linked already, the call makes no
\* native call at all, raises nothing, warns and changes nothing.
CoordsLinked(g, s) ==
    \A d \in 1 .. objs[g].rank : coordsH[objs[g].co][s][d] # NoArr
C6_AddCoordsTwiceIsNoOp ==
    [][\A g \in Objects :
          /\ (/\ StepOf("add_coords", g)
               /\ \A k \in DOMAIN last'.stag : CoordsLinked(g, last'.stag[k]))
                => /\ last'.calls = <<>>
                   /\ last'.err = NoErr
                   /\ last'.warned = (last'.stag # <<>>)
                   /\ UNCHANGED <<objs, flagsH, vecH, coordsH, itemH, bufs, native>>
          /\ \A k \in DOMAIN last'.stag :
                 (StepOf("add_coords", g) /\ CoordsLinked(g, last'.stag[k]))
                    => /\ \A j \in DOMAIN last'.calls : last'.calls[j][2] # last'.stag[k]
                       /\ coordsH'[objs'[g].co][last'.stag[k]]
                              = coordsH[objs[g].co][last'.stag[k]]
                       /\ flagsH'[objs'[g].sl][last'.stag[k]]
                              = flagsH[objs[g].sl][last'.stag[k]]
                       /\ vecH'[objs'[g].lb][last'.stag[k]] = vecH[objs[g].lb][last'.stag[k]]
                       /\ vecH'[objs'[g].ub][last'.stag[k]] = vecH[objs[g].ub][last'.stag[k]]
                       /\ vecH'[objs'[g].sz][last'.stag[k]] = vecH[objs[g].sz][last'.stag[k]]
                       /\ \A d \in 1 .. objs[g].rank :
                              ViewData(bufs', coordsH[objs[g].co][last'.stag[k]][d])
                                  = ViewData(bufs, coordsH[objs[g].co][last'.stag[k]][d])]_vars
\* add_coords was called at the centre stagger of a grid whose centre
\* coordinates were linked, and warned.
C6_Witness ==
    /\ last.op = "add_coords" /\ last.stag = <<CENTER>>
    /\ last.warned /\ last.calls = <<>>
    /\ flagsH[objs[last.obj].sl][CENTER]
    /\ CoordsLinked(last.obj, CENTER)

\* C7: add_item(MASK or AREA) at a stagger location where that item is linked
\* already fails with GridItemAlreadyLinked, makes no native allocation call
\* for that location and leaves the linked buffer as it was. When a list of
\* locations is given and the native library fails at an earlier location of
\* the list, the call ends there with that failure and never comes to the
\* linked location.
FailedBefore(k) ==
    /\ last'.err # NoErr
    /\ last'.calls # <<>>
    /\ \E j \in 1 .. (k - 1) :
           /\ last'.stag[j] # last'.stag[k]
           /\ last'.calls[Len(last'.calls)][2] = last'.stag[j]
ItemArr(os, ih, g, item, s) ==
    IF item = MASK THEN ih[os[g].mk][s] ELSE ih[os[g].ar][s]
C7_AddItemTwiceFails ==
    [][\A g \in Objects :
          \A k \in DOMAIN last'.stag :
              (/\ StepOf("add_item", g)
               /\ last'.item \in {MASK, AREA}
               /\ ItemArr(objs, itemH, g, last'.item, last'.stag[k]) # NoArr)
                => /\ last'.err = "GridItemAlreadyLinked" \/ FailedBefore(k)
                   /\ \A j \in DOMAIN last'.calls :
                          last'.calls[j] # <<"GridAddItem", last'.stag[k]>>
                   /\ ItemArr(objs', itemH', g, last'.item, last'.stag[k])
                          = ItemArr(objs, itemH, g, last'.item, last'.stag[k])
                   /\ ViewData(bufs', ItemArr(objs, itemH, g, last'.item, last'.stag[k]))
                          = ViewData(bufs, ItemArr(objs, itemH, g, last'.item, last'.stag[k]))]_vars
\* A second add_item(MASK) at the centre stagger was refused, the mask still
\* being the linked one.
C7_Witness ==
    /\ last.op = "add_item" /\ last.item = MASK /\ last.stag = <<CENTER>>
    /\ last.err = "GridItemAlreadyLinked"
    /\ ItemArr(objs, itemH, last.obj, MASK, CENTER) # NoArr
    /\ bufs[ItemArr(objs, itemH, last.obj, MASK, CENTER).buf].owner = "native"

SubBoxLo(fs, n) == [d \in 1 .. Len(n) |-> Min(fs[d].start, n[d])]
SubBoxHi(fs, n) == [d \in 1 .. Len(n) |-> Max(Min(fs[d].start, n[d]), Min(fs[d].stop, n[d]))]
SubBox(P, fs, n) ==
    [i \in Cells(VecSub(SubBoxHi(fs, n), SubBoxLo(fs, n))) |->
        P[[d \in 1 .. Len(n) |-> SubBoxLo(fs, n)[d] + i[d]]]]
IsSubBoxView(child, parent, fs) ==
    parent # NoArr =>
        /\ child # NoArr
        /\ child.buf = parent.buf
        /\ ViewData(bufs, child) = SubBox(ViewData(bufs, parent), fs, Shape(parent))
C9_SliceIsSubBox ==
    (last.op = "getitem" /\ last.err = NoErr) =>
        LET p == objs[last.obj]
            c == objs[last.ret]
        IN  /\ \A s \in Staggers(p.rank) :
                  /\ \A d \in 1 .. p.rank :
                        IsSubBoxView(coordsH[c.co][s][d], coordsH[p.co][s][d], last.slc)
                  /\ IsSubBoxView(itemH[c.mk][s], itemH[p.mk][s], last.slc)
                  /\ IsSubBoxView(itemH[c.ar][s], itemH[p.ar][s], last.slc)
                  /\ coordsH[p.co][s][1] # NoArr =>
                        vecH[c.ub][s] = Shape(coordsH[c.co][s][1])
                  /\ vecH[c.lb][s] = vecH[p.lb][s]
            /\ c.fin = "T"
            /\ destroy(Machine(0, 0), last.ret).calls = <<>>
\* A grid with centre coordinates and a mask was sliced to a proper sub-box.
C9_Witness ==
    /\ last.op = "getitem" /\ last.err = NoErr
    /\ coordsH[objs[last.obj].co][CENTER][1] # NoArr
    /\ itemH[objs[last.obj].mk][CENTER] # NoArr
    /\ Shape(coordsH[objs[last.ret].co][CENTER][1]) = <<1, 1>>
    /\ coordsH[objs[last.ret].co][CENTER][1].lo = <<0, 1>>
    /\ vecH[objs[last.ret].ub][CENTER] # vecH[objs[last.obj].ub][CENTER]

\* C10: with more than one parallel worker, index access on a Grid fails at
\* once with SerialMethod, makes no copy and leaves the parent as it was.
C10_NoSlicingInParallel ==
    [][\A g \in Objects :
          (StepOf("getitem", g) /\ petCount > 1)
            => /\ last'.err = "SerialMethod"
               /\ last'.ret = 0
               /\ last'.calls = <<>>
               /\ UNCHANGED <<objs, flagsH, vecH, coordsH, itemH, bufs, native, atexit>>]_vars
\* Slicing a grid that has centre coordinates was refused under two workers.
C10_Witness ==
    /\ petCount > 1
    /\ last.op = "getitem" /\ last.err = "SerialMethod"
    /\ CoordsLinked(last.obj, CENTER)

\* C11: on a Grid object, once lower_bounds[s], upper_bounds[s] and size[s]
\* have been computed for a stagger location s, no later add_coords or
\* add_item call changes them (the native side being left as it is).
BoundsSet(g, s) ==
    /\ objs[g].lb # 0
    /\ s \in DOMAIN vecH[objs[g].lb]
    /\ vecH[objs[g].lb][s] # NoVec
    /\ vecH[objs[g].ub][s] # NoVec
    /\ vecH[objs[g].sz][s] # NoVec
C11_BoundsNeverChange ==
    [][\A g \in Objects : \A s \in Staggers(3) :
          (/\ last'.tick # last.tick
           /\ last'.op \in {"add_coords", "add_item"}
           /\ BoundsSet(g, s))
            => /\ vecH'[objs'[g].lb][s] = vecH[objs[g].lb][s]
               /\ vecH'[objs'[g].ub][s] = vecH[objs[g].ub][s]
               /\ vecH'[objs'[g].sz][s] = vecH[objs[g].sz][s]]_vars
\* add_item succeeded at the centre stagger of a slice whose centre
\* coordinates were linked, so that the bounds were resolved a second time,
\* the slice's upper bounds being those of a proper sub-box.
C11_Witness ==
    /\ last.op = "add_item" /\ last.err = NoErr /\ last.stag = <<CENTER>>
    /\ last.item = MASK
    /\ CoordsLinked(last.obj, CENTER)
    /\ BoundsSet(last.obj, CENTER)
    /\ vecH[objs[last.obj].ub][CENTER] # NativeUB(native[objs[last.obj].struct], CENTER)

\* C12: every coordinate, mask or area buffer a Grid exposes after linking
\* aliases the native buffer, under direct linking and under the expansion of
\* one-dimensional axes alike: a write through the Grid's view shows in the
\* native buffer, and a native write shows through the view.
SharesMemory(arr, nb) ==
    /\ arr # NoArr
    /\ nb # 0
    /\ Cells(Shape(arr)) # {} => FillView(bufs, arr, 9)[nb].data # bufs[nb].data
    /\ \A i \in Cells(Shape(arr)) :
           ViewData([bufs EXCEPT ![nb].data = [c \in DOMAIN @ |-> 9]], arr)[i] = 9
\* The stagger locations whose coordinates the last call linked (it fetched
\* their native pointers), and the items it linked.
CoordsOfLast ==
    {s \in Staggers(3) : \E j \in DOMAIN last.calls : last.calls[j] = <<"GridGetCoordPtr", s>>}
ItemsOfLast ==
    IF last.op = "add_item"
    THEN {<<last.item, last.stag[k]>> : k \in DOMAIN last.stag}
    ELSE IF last.op = "init"
    THEN {<<AREA, CENTER>> : x \in {y \in {1} : last.arg.add_user_area}}
             \cup {<<MASK, CENTER>> : x \in {y \in {1} : last.arg.add_mask}}
    ELSE {}
C12_ViewsAliasNative ==
    (last.op \in {"init", "add_coords", "add_item"} /\ last.err = NoErr) =>
        LET g == last.obj
            ng == native[objs[g].struct]
        IN  /\ \A s \in CoordsOfLast : \A d \in 1 .. objs[g].rank :
                   /\ ng.coordBuf[s] # <<>>
                   /\ SharesMemory(coordsH[objs[g].co][s][d], ng.coordBuf[s][d])
            /\ \A it \in ItemsOfLast :
                   SharesMemory(ItemArr(objs, itemH, g, it[1], it[2]),
                                IF it[1] = MASK THEN ng.maskBuf[it[2]] ELSE ng.areaBuf[it[2]])

\* C13: after any sequence of constructions, add_coords, add_item and
\* slicing, every Grid object, the objects returned by slicing included, has
\* size[s] = upper_bounds[s] - lower_bounds[s] at every stagger location s
\* whose bounds are set.
C13_SizeIsUpperMinusLower ==
    \A g \in Objects : \A s \in Staggers(3) :
        BoundsSet(g, s) =>
            vecH[objs[g].sz][s] = VecSub(vecH[objs[g].ub][s], vecH[objs[g].lb][s])

\* C14: a construction in memory calls the native no-periodic create first
\* when num_peri_dims is 0 or None and the native one-periodic create first
\* when it is 1, and never the other one; for any other value it raises
\* TypeError, makes no native call and leaves the native grids as they were.
C14_PeriDispatch ==
    [][(last'.tick # last.tick /\ last'.op = "init" /\ ArgCheck(last'.arg) = "memory") =>
          LET p == last'.arg.num_peri_dims
              np == IF p.none THEN 0 ELSE p.v
              Called(fn) == \E j \in DOMAIN last'.calls : last'.calls[j][1] = fn
          IN  /\ np = 0 => /\ last'.calls # <<>>
                            /\ last'.calls[1] = <<"GridCreateNoPeriDim", 0>>
                            /\ ~Called("GridCreate1PeriDim")
              /\ np = 1 => /\ last'.calls # <<>>
                            /\ last'.calls[1] = <<"GridCreate1PeriDim", 0>>
                            /\ ~Called("GridCreateNoPeriDim")
              /\ np \notin {0, 1} => /\ last'.err = "TypeError"
                                     /\ last'.calls = <<>>
                                     /\ native' = native
                                     /\ objs'[last'.obj].struct = 0]_vars
C14_Witness ==
    /\ last.op = "init"
    /\ ArgCheck(last.arg) = "memory"
    /\ ~last.arg.num_peri_dims.none
    /\ last.arg.num_peri_dims.v = 2
    /\ last.err = "TypeError"
    /\ native = <<>>

\* The first bounds query a step made for stagger s, if it made one: the
\* query of the bounds resolution.
ResolvedAt(s) ==
    {j \in DOMAIN last'.calls :
        /\ last'.calls[j] = <<"GridGetCoordBounds", s>>
        /\ \A i \in 1 .. (j - 1) : last'.calls[i] # <<"GridGetCoordBounds", s>>}
\* The query at position j of the step's call log returned.
Returned(j) == j < Len(last'.calls) \/ last'.err \notin {"NativeError", "GridBoundsNotCreated"}
\* Lower and upper bounds of stagger s are cached on g and one of them is not
\* what the native grid reports.
CacheDiffers(g, s) ==
    /\ objs[g].lb # 0
    /\ s \in DOMAIN vecH[objs[g].lb]
    /\ vecH[objs[g].lb][s] # NoVec
    /\ vecH[objs[g].ub][s] # NoVec
    /\ \/ vecH[objs[g].lb][s] # NativeLB(native[objs[g].struct], s)
       \/ vecH[objs[g].ub][s] # NativeUB(native[objs[g].struct], s)

\* C15: when add_coords or add_item resolves the bounds of a stagger location
\* whose lower and upper bounds are cached, the native query returns, and the
\* native lower or upper bounds differ from the cached ones, the call raises
\* AssertionError.
C15_DriftIsAsserted ==
    [][\A s \in Staggers(3) :
          (/\ last'.tick # last.tick
           /\ last'.op \in {"add_coords", "add_item"}
           /\ CacheDiffers(last'.obj, s)
           /\ \E j \in ResolvedAt(s) : Returned(j))
          => last'.err = "AssertionError"]_vars

\* The query at position j of the step's call log raised: it is the last
\* call made and a native error, raw or translated, is what the step raised.
QueryFailed(j) ==
    j = Len(last'.calls) /\ last'.err \in {"NativeError", "GridBoundsNotCreated"}

\* C16: when the native bounds query of the bounds resolution of a stagger
\* location fails in add_coords or add_item, the call raises
\* GridBoundsNotCreated, whether the bounds of the location were cached
\* before the call or not.
C16_BoundsFailureIsTranslated ==
    [][\A s \in Staggers(3) :
          (/\ last'.tick # last.tick
           /\ last'.op \in {"add_coords", "add_item"}
           /\ \E j \in ResolvedAt(s) : QueryFailed(j))
          => last'.err = "GridBoundsNotCreated"]_vars

\* C17: add_item with an item kind that is neither MASK nor AREA raises
\* GridItemNotSupported whatever the staggerloc argument is (None, one
\* location, a collection, the empty collection), makes no native call and
\* leaves mask, area and the native side as they were.
C17_UnsupportedItemIsRejected ==
    [][(last'.tick # last.tick /\ last'.op = "add_item" /\ last'.item \notin {MASK, AREA}) =>
          /\ last'.err = "GridItemNotSupported"
          /\ last'.calls = <<>>
          /\ itemH' = itemH
          /\ native' = native
          /\ bufs' = bufs]_vars

\* C18: on every constructed Grid, the flag staggerloc[s] is true
\* exactly when coords[s][d] is not None for every dimension d below rank,
\* and while the flag is false every coords[s][d] is None; this holds after
\* any sequence of operations, failed add_coords calls included.
C18_FlagMatchesCoords ==
    \A g \in Objects :
        objs[g].complete =>
            \A s \in DOMAIN flagsH[objs[g].sl] :
                /\ flagsH[objs[g].sl][s] <=>
                       \A d \in 1 .. objs[g].rank : coordsH[objs[g].co][s][d] # NoArr
                /\ ~flagsH[objs[g].sl][s] =>
                       \A d \in 1 .. objs[g].rank : coordsH[objs[g].co][s][d] = NoArr

\* The native grid behind object g has been destroyed.
HandleDestroyed(g) ==
    /\ g \in Objects
    /\ objs[g].struct # 0
    /\ native[objs[g].struct].destroyed > 0

\* C19: once the native destroy has been called on the handle of a Grid, no
\* later operation on that Grid, or on a copy or slice that shares the
\* handle, makes a native call with it.
C19_NoCallAfterDestroy ==
    [][(last'.tick # last.tick /\ HandleDestroyed(last'.obj)) => last'.calls = <<>>]_vars

\* Object o is a slice of g: g holds the lists its constructor made, o shares
\* the flag list of g and has an upper-bound list of its own.
SliceOf(o, g) ==
    /\ o \in Objects /\ g \in Objects /\ g # o
    /\ objs[g].sl # 0
    /\ objs[o].sl = objs[g].sl
    /\ objs[g].ub = objs[g].lb + 1
    /\ objs[o].ub # objs[g].ub

\* C20: add_coords or add_item on an object returned by slicing leaves the
\* stagger flags, lower_bounds, upper_bounds, size, coords, mask and area of
\* the Grid that was sliced as they were.
C20_SliceLeavesParentAlone ==
    [][\A g \in Objects :
          (/\ last'.tick # last.tick
           /\ last'.op \in {"add_coords", "add_item"}
           /\ SliceOf(last'.obj, g))
          => /\ flagsH'[objs[g].sl] = flagsH[objs[g].sl]
             /\ vecH'[objs[g].lb] = vecH[objs[g].lb]
             /\ vecH'[objs[g].ub] = vecH[objs[g].ub]
             /\ vecH'[objs[g].sz] = vecH[objs[g].sz]
             /\ coordsH'[objs[g].co] = coordsH[objs[g].co]
             /\ itemH'[objs[g].mk] = itemH[objs[g].mk]
             /\ itemH'[objs[g].ar] = itemH[objs[g].ar]]_vars
====
